---- MODULE Spec2Model ----
(***************************************************************************)
(* Model of presidents_brief.py: the in-memory user directory (users), the *)
(* pending request store (daily_requests), the webhook handler             *)
(* handle_whatsapp and the scheduled job send_daily_briefings.             *)
(*                                                                         *)
(* Strings that the code takes apart (the From field, the Body field, the  *)
(* phone numbers) are sequences of one-character strings.  A dict that is  *)
(* iterated (users) is a sequence of entries in insertion order; a dict    *)
(* that is only indexed (daily_requests) is a function whose DOMAIN is its *)
(* key set.  Each dict operation of CPython (in, [k] = v, pop, clear,      *)
(* update with str keys) is one atomic step; steps of the webhook thread   *)
(* and of the scheduler thread interleave freely between them.             *)
(***************************************************************************)
EXTENDS Integers, Sequences, FiniteSets, TLC

\* ---------------------------------------------------------------- bounds
MaxRuns == 2        \* scheduled runs of the daily job explored
MaxMsgs == 2        \* acknowledged webhook messages explored
MaxRows == 2        \* rows of the spreadsheet
MaxFromLen == 2     \* characters of the From form field
MaxBodyLen == 1     \* characters of the Body form field

\* webhook requests in flight at once: one
Handlers == {"h1"}

\* ------------------------------------------------------------- alphabets
PhoneChars == {"1", "2"}
FromChars == {":"} \cup PhoneChars
BodyChars == {" ", "a"}

RECURSIVE SeqsUpTo(_, _)
SeqsUpTo(S, n) ==
    IF n = 0 THEN {<<>>}
    ELSE LET shorter == SeqsUpTo(S, n - 1)
         IN  shorter \cup {Append(s, c) : s \in shorter, c \in S}

Froms == SeqsUpTo(FromChars, MaxFromLen)
Bodies == SeqsUpTo(BodyChars, MaxBodyLen)

\* Cells of a spreadsheet row: Phone and Email may be empty; bad = TRUE
\* stands for a row on which User(row) raises (a non-text cell).
SheetPhones == {<<>>, <<"1">>, <<"2">>}
SheetEmails == {"", "a@example.com"}
Rows == [Phone : SheetPhones, Email : SheetEmails, bad : BOOLEAN]
Sheets == SeqsUpTo(Rows, MaxRows)

\* ------------------------------------------------------------ python bits
\* None, as the value daily_requests.pop(phone, None) returns for a missing
\* key.  A stored message carries the serial number of its acknowledgment
\* (id > 0) so that equal texts of different messages stay distinguishable.
NoneVal == [id |-> 0, text |-> <<>>]

\* str.strip(): drop leading and trailing blanks
RECURSIVE LStrip(_)
LStrip(s) == IF s # <<>> /\ Head(s) = " " THEN LStrip(Tail(s)) ELSE s

RECURSIVE RStrip(_)
RStrip(s) ==
    IF s # <<>> /\ s[Len(s)] = " " THEN RStrip(SubSeq(s, 1, Len(s) - 1)) ELSE s

Strip(s) == RStrip(LStrip(s))

\* str.split(':'): the list of the segments between colons
RECURSIVE SplitColon(_, _, _)
SplitColon(s, cur, acc) ==
    IF s = <<>> THEN Append(acc, cur)
    ELSE IF Head(s) = ":" THEN SplitColon(Tail(s), <<>>, Append(acc, cur))
    ELSE SplitColon(Tail(s), Append(cur, Head(s)), acc)

Split(s) == SplitColon(s, <<>>, <<>>)

\* class User: the fields the pipeline reads back
User(row) == [phone |-> row.Phone, email |-> row.Email]

\* keys of the users dict
Keys(d) == {d[i].phone : i \in 1..Len(d)}

\* d[u.phone] = u on an insertion-ordered dict
DictSet(d, u) ==
    IF u.phone \in Keys(d)
    THEN [i \in 1..Len(d) |-> IF d[i].phone = u.phone THEN u ELSE d[i]]
    ELSE Append(d, u)

\* d.update(other)
RECURSIVE DictUpdate(_, _)
DictUpdate(d, other) ==
    IF other = <<>> THEN d
    ELSE DictUpdate(DictSet(d, Head(other)), Tail(other))

\* the row loop of load_users: rows without phone or email are skipped, rows
\* on which User(row) raises are logged and skipped
RECURSIVE BuildUsers(_, _)
BuildUsers(records, acc) ==
    IF records = <<>> THEN acc
    ELSE LET row == Head(records)
         IN  IF row.Phone = <<>> \/ row.Email = ""
             THEN BuildUsers(Tail(records), acc)
             ELSE IF row.bad
             THEN BuildUsers(Tail(records), acc)
             ELSE BuildUsers(Tail(records), DictSet(acc, User(row)))

Directories == {BuildUsers(s, <<>>) : s \in Sheets}

\* variant: daily_requests.setdefault(k, v)
StorePutIfAbsent(d, k, v) ==
    [x \in DOMAIN d \cup {k} |-> IF x \in DOMAIN d THEN d[x] ELSE v]

\* daily_requests[k] = v
StorePut(d, k, v) == [x \in DOMAIN d \cup {k} |-> IF x = k THEN v ELSE d[x]]

\* daily_requests.pop(k, None): the value returned
PopValue(d, k) == IF k \in DOMAIN d THEN d[k] ELSE NoneVal

\* variant: daily_requests.get(k), the entry stays
PopRestKeeps(d, k) == d

\* variant: the whole store is cleared after the read
PopRestAll(d, k) == [x \in {} |-> NoneVal]

\* daily_requests.pop(k, None): the dict afterwards
PopRest(d, k) == [x \in DOMAIN d \ {k} |-> d[x]]

\* the three fixed webhook payloads
Acknowledged == "Request received! You'll get it in your next briefing."
NotRegistered == "Not a registered user"
ErrorPayload == "Error processing request"

\* generate_briefing
Fallback == "Error generating briefing. Please try again later."
NoneText == <<"N", "o", "n", "e">>
Contents == {"", "briefing"}

\* variant: the special request is left out of the prompt
PromptWithoutRequest(user, sr) == [phone |-> user.phone, request |-> NoneText]

\* the prompt's "Today's Special Request: {special_request or 'None'}"
Prompt(user, sr) ==
    [phone |-> user.phone,
     request |-> IF sr = NoneVal \/ sr.text = <<>> THEN NoneText ELSE sr.text]

\* f"{phone}_{datetime.now().strftime('%Y%m%d')}.pdf"
PdfFile(phone, day) == [phone |-> phone, day |-> day]


\* ------------------------------------------------------------------ state
VARIABLES
    users,            \* users = {}: entries [phone, email] in insertion order
    daily_requests,   \* daily_requests = {}: phone -> pending message
    w_pc,             \* per webhook request: "idle", "write", "reply"
    from_number,      \* handle_whatsapp local
    message,          \* handle_whatsapp local
    response,         \* payload handle_whatsapp returns ("" while none)
    j_pc,             \* position of the scheduler thread in send_daily_briefings
    new_users,        \* load_users local
    idx,              \* position of the for loop over users.items()
    special_request,  \* send_daily_briefings locals of the current user
    content,
    prompt,           \* generate_briefing local
    pdf_path,
    today,            \* the day of the current run (runs started so far)
    disk,             \* rendered files present on disk
    outbox,           \* emails handed to SMTP for the current user
    log,              \* logger.error records written for the current user
    leftover,         \* rendered files whose os.remove raised
    trace,            \* steps executed for the current user, with outcomes
    started,          \* phones whose processing began in the current run
    old_users,        \* users as it was when the current run called load_users
    fetch_failed,     \* the current run's spreadsheet fetch raised
    acked             \* history of acknowledged messages, by serial number

vars == <<users, daily_requests, w_pc, from_number, message, response, j_pc,
          new_users, idx, special_request, content, prompt, pdf_path, today,
          disk, outbox, log, leftover, trace, started, old_users, fetch_failed,
          acked>>

webVars == <<w_pc, from_number, message, response>>
userLocals == <<special_request, content, prompt, pdf_path>>

EmptyStore == [x \in {} |-> NoneVal]
NoPrompt == [phone |-> <<>>, request |-> <<>>]
NoFile == PdfFile(<<>>, 0)

\* the state when app.run starts serving: load_users() has run once (it may
\* have failed and left users empty), the scheduler is idle
Init ==
    /\ users \in Directories
    /\ daily_requests = EmptyStore
    /\ w_pc = [h \in Handlers |-> "idle"]
    /\ from_number = [h \in Handlers |-> <<>>]
    /\ message = [h \in Handlers |-> <<>>]
    /\ response = [h \in Handlers |-> ""]
    /\ j_pc = "idle"
    /\ new_users = <<>>
    /\ idx = 0
    /\ special_request = NoneVal
    /\ content = ""
    /\ prompt = NoPrompt
    /\ pdf_path = NoFile
    /\ today = 0
    /\ disk = {}
    /\ outbox = <<>>
    /\ log = {}
    /\ leftover = {}
    /\ trace = <<>>
    /\ started = {}
    /\ old_users = <<>>
    /\ fetch_failed = FALSE
    /\ acked = <<>>

\* ------------------------------------------------- webhook: handle_whatsapp
\* variant: no membership check
IsRegisteredAlways(number, directory) == TRUE

\* `from_number in users`
IsRegistered(number, directory) == number \in Keys(directory)

Ids == 1..Len(acked)

\* serial number of the next acknowledgment
NextId == Len(acked) + 1

\* requests that passed the membership check and have not written yet
InFlight == Cardinality({h \in Handlers : w_pc[h] = "write"})

\* A request arrives.  request.form.get('From', '').split(':')[1] raises
\* IndexError when From has no colon; the except clause logs and returns the
\* error payload.  Otherwise Body is stripped and the directory is consulted:
\* a sender that is not a key of users is rejected.  Once the payload is
\* chosen the message local is dead; from_number stays as the addressee of
\* the response until it is sent.
W_Receive(h, From, Body) ==
    /\ w_pc[h] = "idle"
    /\ LET parts == Split(From)
       IN  IF Len(parts) < 2
           THEN /\ response' = [response EXCEPT ![h] = ErrorPayload]
                /\ w_pc' = [w_pc EXCEPT ![h] = "reply"]
                /\ UNCHANGED <<from_number, message>>
           ELSE /\ from_number' = [from_number EXCEPT ![h] = parts[2]]
                /\ IF IsRegistered(parts[2], users)
                   THEN /\ Len(acked) + InFlight < MaxMsgs
                        /\ message' = [message EXCEPT ![h] = Strip(Body)]
                        /\ w_pc' = [w_pc EXCEPT ![h] = "write"]
                        /\ UNCHANGED response
                   ELSE /\ w_pc' = [w_pc EXCEPT ![h] = "reply"]
                        /\ response' = [response EXCEPT ![h] = NotRegistered]
                        /\ UNCHANGED message
    /\ UNCHANGED <<users, daily_requests, j_pc, new_users, idx, userLocals,
                   today, disk, outbox, log, leftover, trace, started,
                   old_users, fetch_failed, acked>>

\* daily_requests[from_number] = message, then the acknowledgment is returned.
\* The history notes the new message and marks the one it replaced.
W_Write(h) ==
    /\ w_pc[h] = "write"
    /\ LET k == from_number[h]
           replaced == IF k \in DOMAIN daily_requests
                       THEN daily_requests[k].id ELSE 0
           marked == [i \in Ids |->
                        IF i = replaced THEN [acked[i] EXCEPT !.over = TRUE]
                        ELSE acked[i]]
       IN  /\ daily_requests' =
                StorePut(daily_requests, k, [id |-> NextId, text |-> message[h]])
           /\ acked' = Append(marked,
                [phone |-> k, text |-> message[h], takes |-> 0, gens |-> 0,
                 over |-> FALSE, seen |-> FALSE])
    /\ response' = [response EXCEPT ![h] = Acknowledged]
    /\ message' = [message EXCEPT ![h] = <<>>]
    /\ w_pc' = [w_pc EXCEPT ![h] = "reply"]
    /\ UNCHANGED <<users, from_number, j_pc, new_users, idx,
                   userLocals, today, disk, outbox, log, leftover, trace,
                   started, old_users, fetch_failed>>

\* the response has been sent; the request's frame is gone
W_Reply(h) ==
    /\ w_pc[h] = "reply"
    /\ w_pc' = [w_pc EXCEPT ![h] = "idle"]
    /\ from_number' = [from_number EXCEPT ![h] = <<>>]
    /\ message' = [message EXCEPT ![h] = <<>>]
    /\ response' = [response EXCEPT ![h] = ""]
    /\ UNCHANGED <<users, daily_requests, j_pc, new_users, idx, userLocals,
                   today, disk, outbox, log, leftover, trace, started,
                   old_users, fetch_failed, acked>>

\* ------------------------------------------------------------- load_users
\* variant: users.clear() placed before the fetch
UsersClearedBeforeFetch(directory) == <<>>

\* users after gc.open / get_all_records raised: the except clause of
\* load_users logs, and nothing before it has touched users
UsersAfterFailedFetch(directory) == directory

jobRest == <<daily_requests, webVars, disk, leftover, acked>>

\* The scheduler fires send_daily_briefings (one instance at a time) and the
\* job calls load_users.
J_Trigger ==
    /\ j_pc = "idle"
    /\ today < MaxRuns
    /\ j_pc' = "load"
    /\ today' = today + 1
    /\ old_users' = users
    /\ UNCHANGED <<users, new_users, idx, userLocals, outbox, log, trace,
                   started, fetch_failed, jobRest>>

\* load_users: the sheet is fetched and new_users is built from its rows
J_Fetch(records) ==
    /\ j_pc = "load"
    /\ new_users' = BuildUsers(records, <<>>)
    /\ j_pc' = "clear"
    /\ UNCHANGED <<users, idx, userLocals, today, outbox, log, trace, started,
                   old_users, fetch_failed, jobRest>>

\* load_users: the fetch raises, "Failed to load users" is logged and the job
\* goes on to its loop
J_FetchFail ==
    /\ j_pc = "load"
    /\ users' = UsersAfterFailedFetch(users)
    /\ fetch_failed' = TRUE
    /\ j_pc' = "loop"
    /\ idx' = 1
    /\ UNCHANGED <<new_users, userLocals, today, outbox, log, trace, started,
                   old_users, jobRest>>

\* users.clear()
J_Clear ==
    /\ j_pc = "clear"
    /\ users' = <<>>
    /\ j_pc' = "update"
    /\ UNCHANGED <<new_users, idx, userLocals, today, outbox, log, trace,
                   started, old_users, fetch_failed, jobRest>>

\* users.update(new_users); load_users returns and the for loop over
\* users.items() starts
J_Update ==
    /\ j_pc = "update"
    /\ users' = DictUpdate(users, new_users)
    /\ new_users' = <<>>
    /\ old_users' = <<>>
    /\ j_pc' = "loop"
    /\ idx' = 1
    /\ UNCHANGED <<userLocals, today, outbox, log, trace, started,
                   fetch_failed, jobRest>>

\* --------------------------------------------------- send_daily_briefings
\* variant: the except clause breaks out of the loop
AfterFailureBreak(i, n) == n + 1

\* the loop position after the per-user except clause: log, continue
AfterFailure(i, n) == i + 1

\* variant: create_pdf swallows the exception
CreatePdfSwallows(ok) == FALSE

\* create_pdf re-raises what it caught
CreatePdfPropagates(ok) == ~ok

\* variant: send_email lets the exception out
SendEmailRaises(ok) == ~ok

\* send_email logs what it caught and returns
SendEmailPropagates(ok) == FALSE

Step(name, ok) == [step |-> name, ok |-> ok]

UserFailed(phone) == [kind |-> "Failed to process user", phone |-> phone]

\* The next user's iteration begins (what the previous iteration left in
\* content, prompt and pdf_path is never read again):
\* special_request = daily_requests.pop(phone, None)
J_Take ==
    /\ j_pc = "loop"
    /\ idx <= Len(users)
    /\ LET phone == users[idx].phone
           v == PopValue(daily_requests, phone)
       IN  /\ special_request' = v
           /\ daily_requests' = PopRest(daily_requests, phone)
           /\ acked' = [i \in Ids |->
                 [acked[i] EXCEPT
                    !.takes = IF i = v.id THEN @ + 1 ELSE @,
                    !.seen = IF acked[i].phone = phone THEN TRUE ELSE @]]
           /\ started' = started \cup {phone}
    /\ trace' = <<Step("take", TRUE)>>
    /\ outbox' = <<>>
    /\ log' = {}
    /\ content' = ""
    /\ prompt' = NoPrompt
    /\ pdf_path' = NoFile
    /\ j_pc' = "generate"
    /\ UNCHANGED <<users, webVars, new_users, idx, today, disk, leftover,
                   old_users, fetch_failed>>

\* content = generate_briefing(user, special_request): the API answers with
\* text (possibly empty), or the call fails and the fallback string comes
\* back.  `if not content: continue`.
J_Generate(ok, text) ==
    /\ j_pc = "generate"
    /\ prompt' = Prompt(users[idx], special_request)
    /\ acked' = [i \in Ids |->
                   IF i = special_request.id
                   THEN [acked[i] EXCEPT !.gens = @ + 1] ELSE acked[i]]
    /\ LET result == IF ok THEN text ELSE Fallback
       IN  IF result = ""
           THEN /\ trace' = trace \o <<Step("generate", ok), Step("skip", TRUE)>>
                /\ idx' = idx + 1
                /\ j_pc' = "loop"
                /\ content' = ""
                /\ UNCHANGED log
           ELSE /\ trace' = Append(trace, Step("generate", ok))
                /\ content' = result
                /\ j_pc' = "render"
                /\ log' = IF ok THEN log
                          ELSE log \cup {[kind |-> "Perplexity API error",
                                          phone |-> users[idx].phone]}
                /\ UNCHANGED idx
    /\ UNCHANGED <<users, daily_requests, webVars, new_users, special_request,
                   pdf_path, today,
                   disk, leftover, outbox, started, old_users, fetch_failed>>

\* pdf_path = create_pdf(content, pdf_file)
J_Render(ok) ==
    /\ j_pc = "render"
    /\ LET phone == users[idx].phone
           pdf_file == PdfFile(phone, today)
       IN  IF CreatePdfPropagates(ok)
           THEN /\ trace' = Append(trace, Step("render", ok))
                /\ log' = log \cup {[kind |-> "PDF creation failed",
                                     phone |-> phone], UserFailed(phone)}
                /\ idx' = AfterFailure(idx, Len(users))
                /\ j_pc' = "loop"
                /\ UNCHANGED <<disk, userLocals>>
           ELSE /\ trace' = Append(trace, Step("render", ok))
                /\ disk' = IF ok THEN disk \cup {pdf_file} ELSE disk
                /\ pdf_path' = IF ok THEN pdf_file ELSE NoFile
                /\ j_pc' = "notify"
                /\ UNCHANGED <<idx, log, special_request, content, prompt>>
    /\ UNCHANGED <<users, daily_requests, webVars, new_users, today, outbox,
                   leftover, started, old_users, fetch_failed, acked>>

\* send_email(user, pdf_path)
J_Notify(ok) ==
    /\ j_pc = "notify"
    /\ LET user == users[idx]
           sent == ok /\ pdf_path \in disk
       IN  /\ trace' = Append(trace, Step("notify", sent))
           /\ outbox' = IF sent
                        THEN Append(outbox, [to |-> user.email,
                                             attachment |-> pdf_path])
                        ELSE outbox
           /\ IF SendEmailPropagates(sent)
              THEN /\ log' = log \cup {UserFailed(user.phone)}
                   /\ idx' = AfterFailure(idx, Len(users))
                   /\ j_pc' = "loop"
              ELSE /\ log' = IF sent THEN log
                             ELSE log \cup {[kind |-> "Failed to send email",
                                             phone |-> user.phone]}
                   /\ j_pc' = "cleanup"
                   /\ UNCHANGED idx
           /\ UNCHANGED userLocals
    /\ UNCHANGED <<users, daily_requests, webVars, new_users, today, disk,
                   leftover, started, old_users, fetch_failed, acked>>

\* os.remove(pdf_path): when it raises, the per-user except clause logs and
\* the file stays
J_Cleanup(ok) ==
    /\ j_pc = "cleanup"
    /\ LET phone == users[idx].phone
           removed == ok /\ pdf_path \in disk
       IN  /\ trace' = Append(trace, Step("cleanup", removed))
           /\ disk' = IF removed THEN disk \ {pdf_path} ELSE disk
           /\ leftover' = IF removed THEN leftover ELSE leftover \cup {pdf_path}
           /\ log' = IF removed THEN log ELSE log \cup {UserFailed(phone)}
           /\ idx' = IF removed THEN idx + 1 ELSE AfterFailure(idx, Len(users))
    /\ j_pc' = "loop"
    /\ UNCHANGED <<users, daily_requests, webVars, new_users, userLocals, today,
                   outbox, started, old_users, fetch_failed, acked>>

\* the loop is exhausted: "Daily briefing process completed"; the job's
\* frame is gone
J_Finish ==
    /\ j_pc = "loop"
    /\ idx > Len(users)
    /\ j_pc' = "idle"
    /\ idx' = 0
    /\ trace' = <<>>
    /\ outbox' = <<>>
    /\ log' = {}
    /\ started' = {}
    /\ old_users' = <<>>
    /\ fetch_failed' = FALSE
    /\ special_request' = NoneVal
    /\ content' = ""
    /\ prompt' = NoPrompt
    /\ pdf_path' = NoFile
    /\ UNCHANGED <<users, new_users, today, jobRest>>

\* ---------------------------------------------------------- specification
Next ==
    \/ \E h \in Handlers, From \in Froms, Body \in Bodies : W_Receive(h, From, Body)
    \/ \E h \in Handlers : W_Write(h)
    \/ \E h \in Handlers : W_Reply(h)
    \/ J_Trigger
    \/ \E records \in Sheets : J_Fetch(records)
    \/ J_FetchFail
    \/ J_Clear
    \/ J_Update
    \/ J_Take
    \/ \E ok \in BOOLEAN, text \in Contents : J_Generate(ok, text)
    \/ \E ok \in BOOLEAN : J_Render(ok)
    \/ \E ok \in BOOLEAN : J_Notify(ok)
    \/ \E ok \in BOOLEAN : J_Cleanup(ok)
    \/ J_Finish

Spec == Init /\ [][Next]_vars

\* ------------------------------------------------------------ properties
\* the pending entry of acknowledged message i is in the store
InStore(i) ==
    /\ acked[i].phone \in DOMAIN daily_requests
    /\ daily_requests[acked[i].phone].id = i

\* serial number of the latest message acknowledged for phone p (0: none)
LatestFor(p) ==
    LET mine == {i \in Ids : acked[i].phone = p}
    IN  IF mine = {} THEN 0 ELSE CHOOSE i \in mine : \A j \in mine : j <= i

Names(t) == [k \in 1..Len(t) |-> t[k].step]

Has(t, s) == \E k \in 1..Len(t) : t[k] = s

IsPrefix(a, b) == Len(a) <= Len(b) /\ a = SubSeq(b, 1, Len(a))

\* the user whose iteration is under way or has just ended
InIteration == j_pc \in {"generate", "render", "notify", "cleanup"}
Ended == j_pc = "loop" /\ trace # <<>>
LoopDone == j_pc = "loop" /\ idx > Len(users)

\* C1: record(p, t) then take(p) with no record in between returns exactly
\* t; a take that follows a take returns None; a take with no record before
\* it returns None; and a take never raises.
C1_SingleConsumption ==
    [][(j_pc = "loop" /\ j_pc' = "generate") =>
        LET p == users[idx].phone
            m == LatestFor(p)
        IN  /\ special_request' =
                 IF m # 0 /\ acked[m].takes = 0
                 THEN [id |-> m, text |-> acked[m].text]
                 ELSE NoneVal
            /\ trace' = <<Step("take", TRUE)>>]_vars

\* a second take for a phone whose message an earlier take returned
C1_Witness ==
    /\ j_pc = "generate"
    /\ special_request = NoneVal
    /\ \E i \in Ids : acked[i].phone = users[idx].phone /\ acked[i].takes = 1

\* C2 (as claimed): a webhook request that arrives while load_users replaces
\* the directory never rejects a phone that is in both the old and the new
\* snapshot.
C2_AtomicRefresh ==
    [][\A h \in Handlers :
         (/\ j_pc \in {"clear", "update"}
          /\ w_pc[h] = "idle"
          /\ response'[h] = NotRegistered)
         => from_number'[h] \notin (Keys(old_users) \cap Keys(new_users))]_vars

\* C3: every acknowledged message is exactly one of: still the pending entry
\* of its phone, returned by exactly one take, or overwritten by a later
\* acknowledged message of the same phone; none is returned by two takes.
C3_NoLostUpdate ==
    \A i \in Ids :
        LET a == acked[i]
            pending == InStore(i) /\ daily_requests[a.phone].text = a.text
            n == (IF pending THEN 1 ELSE 0) + (IF a.takes = 1 THEN 1 ELSE 0)
                 + (IF a.over THEN 1 ELSE 0)
        IN  /\ a.takes <= 1
            /\ n = 1
            /\ a.over => \E j \in Ids : j > i /\ acked[j].phone = a.phone

\* a message arrived for a phone while the job, which had already taken an
\* earlier message of that phone, was still running
C3_Witness ==
    /\ j_pc # "idle"
    /\ \E i, j \in Ids :
         /\ i < j
         /\ acked[i].phone = acked[j].phone
         /\ acked[i].takes = 1
         /\ InStore(j)

\* C4: a failure while one user is processed is caught and logged, and every
\* user of the directory still has its processing started in the same run.
C4_FailureIsolation ==
    /\ j_pc \in {"idle", "load", "clear", "update", "loop", "generate",
                 "render", "notify", "cleanup"}
    /\ (j_pc = "loop" \/ InIteration) =>
          started = {users[k].phone :
                       k \in 1..(IF InIteration THEN idx ELSE idx - 1)}
    /\ LoopDone => started = Keys(users)
    /\ (Ended /\ ~trace[Len(trace)].ok) =>
          /\ idx - 1 \in 1..Len(users)
          /\ UserFailed(users[idx - 1].phone) \in log

\* the first of two users failed (its file delete raised) and the second was
\* processed all the same
C4_Witness ==
    /\ LoopDone
    /\ Len(users) = 2
    /\ PdfFile(users[1].phone, today) \in leftover
    /\ started = Keys(users)

\* C5: when the fetch fails, users is what it was before the call, the job
\* goes on to process those users, and users is not touched before the new
\* mapping is complete.
C5_FailedRefreshKeepsOld ==
    /\ j_pc \in {"load", "clear"} => users = old_users
    /\ fetch_failed => users = old_users /\ j_pc \notin {"idle", "load"}
    /\ (fetch_failed /\ LoopDone) => started = Keys(old_users)

\* the fetch failed and the run processed both users of the old snapshot
C5_Witness ==
    /\ fetch_failed
    /\ LoopDone
    /\ Len(old_users) = 2
    /\ started = Keys(old_users)

\* what the prompt must carry for a taken request
Embedded(sr) == IF sr.text = <<>> THEN NoneText ELSE sr.text

\* C6 (as claimed): a user whose pending text was taken in this run has had
\* that text embedded in the prompt, has been sent one email with one
\* attachment, and has no entry in the store once its processing has ended.
C6_Original ==
    (Ended /\ special_request # NoneVal) =>
        /\ prompt.request = Embedded(special_request)
        /\ Len(outbox) = 1
        /\ users[idx - 1].phone \notin DOMAIN daily_requests

\* C6 (amended): the first take for p after t was acknowledged returns t
\* unless a later message replaced it; t is passed to the generator once and
\* never again, embedded in the prompt as t, or as the marker 'None' when t
\* is empty; one email with the rendered file attached is sent for the user
\* exactly when the notify step succeeded, and none otherwise; from the take
\* on, the store has an entry for p only if a later message was acknowledged.
C6_FoldedThenCleared ==
    /\ \A i \in Ids :
         /\ acked[i].gens <= 1
         /\ acked[i].gens <= acked[i].takes
         /\ acked[i].seen => (acked[i].takes = 1 \/ acked[i].over)
    /\ ((Ended \/ j_pc \in {"render", "notify", "cleanup"})
          /\ special_request # NoneVal) =>
         /\ prompt.request = Embedded(special_request)
         /\ acked[special_request.id].gens = 1
         /\ acked[special_request.id].text = special_request.text
    /\ (Ended \/ InIteration) =>
         LET u == users[IF Ended THEN idx - 1 ELSE idx]
         IN  /\ outbox = IF Has(trace, Step("notify", TRUE))
                         THEN <<[to |-> u.email,
                                 attachment |-> PdfFile(u.phone, today)]>>
                         ELSE <<>>
             /\ u.phone \in DOMAIN daily_requests =>
                  /\ daily_requests[u.phone].id > special_request.id
                  /\ acked[daily_requests[u.phone].id].takes = 0

\* a non-empty request was taken, embedded, and the briefing was emailed
C6_Witness ==
    /\ Ended
    /\ special_request # NoneVal
    /\ special_request.text # <<>>
    /\ prompt.request = special_request.text
    /\ Len(outbox) = 1
    /\ Has(trace, Step("cleanup", TRUE))
    /\ users[idx - 1].phone \notin DOMAIN daily_requests

\* C7 (as claimed): once a user's processing has ended, and after a
\* completed run, no rendered file is left on disk.
C7_Original == (j_pc \in {"loop", "idle"}) => disk = {}

\* C7 (amended): the delete of a rendered file is attempted whether the send
\* succeeded or failed, and the only rendered files on disk outside a user's
\* processing are those whose delete itself failed.
C7_DeleteRegardlessOfSend ==
    /\ (Ended /\ Has(trace, Step("render", TRUE))) =>
          /\ \E ok \in BOOLEAN : Has(trace, Step("notify", ok))
          /\ \E ok \in BOOLEAN : Has(trace, Step("cleanup", ok))
    /\ (Ended /\ Has(trace, Step("cleanup", TRUE))) =>
          PdfFile(users[idx - 1].phone, today) \notin disk
    /\ disk = leftover \cup (IF j_pc \in {"notify", "cleanup"}
                             THEN {pdf_path} ELSE {})

\* the send failed and the file was deleted all the same
C7_Witness ==
    /\ Ended
    /\ Has(trace, Step("render", TRUE))
    /\ Has(trace, Step("notify", FALSE))
    /\ Has(trace, Step("cleanup", TRUE))
    /\ disk = {}

\* C8: a request whose extracted number is not a key of users gets the
\* rejection payload and leaves the store as it was; every request gets one
\* of the three payloads; only an acknowledged request changes the store, and
\* only at the sender's key.
C8_RejectionFrame ==
    [][\A h \in Handlers :
         /\ (w_pc[h] = "idle" /\ w_pc'[h] # "idle"
               /\ response'[h] # ErrorPayload) =>
              IF from_number'[h] \in Keys(users)
              THEN w_pc'[h] = "write" /\ daily_requests' = daily_requests
              ELSE /\ w_pc'[h] = "reply"
                   /\ response'[h] = NotRegistered
                   /\ daily_requests' = daily_requests
         /\ w_pc'[h] = "reply" =>
              response'[h] \in {Acknowledged, NotRegistered, ErrorPayload}
         /\ (w_pc'[h] # w_pc[h] /\ daily_requests' # daily_requests) =>
              /\ response'[h] = Acknowledged
              /\ from_number[h] \in DOMAIN daily_requests'
              /\ daily_requests'[from_number[h]].text = message[h]
              /\ \A k \in (DOMAIN daily_requests \cup DOMAIN daily_requests')
                            \ {from_number[h]} :
                   /\ k \in DOMAIN daily_requests
                   /\ k \in DOMAIN daily_requests'
                   /\ daily_requests'[k] = daily_requests[k]]_vars

\* an unregistered sender is being rejected while the store holds a request
C8_Witness ==
    \E h \in Handlers :
        /\ w_pc[h] = "reply"
        /\ response[h] = NotRegistered
        /\ from_number[h] \notin Keys(users)
        /\ daily_requests # EmptyStore

\* C9 (as claimed): a step that failed is the last step executed for the
\* user.
C9_Original == \A k \in 1..(Len(trace) - 1) : trace[k].ok

\* C9 (amended): the steps of one user run in the order take, generate,
\* render, notify, cleanup (or take, generate, skip); render only after a
\* non-empty generator result; notify only after a successful render; a
\* failed render or delete ends the user's processing at once, while a
\* failed generation (fallback text) and a failed send do not.
C9_StateMachine ==
    /\ \/ IsPrefix(Names(trace),
                   <<"take", "generate", "render", "notify", "cleanup">>)
       \/ Names(trace) = <<"take", "generate", "skip">>
    /\ j_pc \in {"render", "notify", "cleanup"} => content # ""
    /\ \A k \in 1..Len(trace) :
         /\ trace[k].step = "notify" => trace[k - 1] = Step("render", TRUE)
         /\ (k < Len(trace) /\ ~trace[k].ok) =>
               trace[k].step \in {"generate", "notify"}
    /\ (Ended /\ Has(trace, Step("render", FALSE))) =>
          /\ outbox = <<>>
          /\ trace[Len(trace)] = Step("render", FALSE)

\* generation failed and the send failed, and every later step still ran
C9_Witness ==
    /\ Ended
    /\ trace = <<Step("take", TRUE), Step("generate", FALSE),
                 Step("render", TRUE), Step("notify", FALSE),
                 Step("cleanup", TRUE)>>

\* C10: a request taken in a run is not put back, whatever fails afterwards,
\* and no later run passes it to the generator; the job leaves the entries
\* of phones that are not in the directory as they are.
C10_ConsumedNotRestored ==
    /\ [](\A i \in Ids : acked[i].takes >= 1 =>
             /\ ~InStore(i)
             /\ acked[i].gens <= 1)
    /\ []((Ended /\ special_request # NoneVal /\ outbox = <<>>) =>
             \A i \in Ids : acked[i].phone = users[idx - 1].phone =>
                 (InStore(i) => i > special_request.id))
    /\ [][j_pc' # j_pc =>
            \A p \in DOMAIN daily_requests :
                p \notin Keys(users) =>
                    /\ p \in DOMAIN daily_requests'
                    /\ daily_requests'[p] = daily_requests[p]]_vars

\* the render failed for a user whose request had been taken, nothing was
\* sent and the request is gone, while the request of a phone that left the
\* directory is still pending
C10_Witness ==
    /\ Ended
    /\ special_request # NoneVal
    /\ trace[Len(trace)] = Step("render", FALSE)
    /\ outbox = <<>>
    /\ users[idx - 1].phone \notin DOMAIN daily_requests
    /\ \E p \in DOMAIN daily_requests : p \notin Keys(users)

====
